---- MODULE Spec2Model ----
(***************************************************************************)
(* Model of the PackagingEngine of src/types/package.ts: the margin and    *)
(* price calculator (calculatePackagePrice and its helpers) over the       *)
(* margin-rule table it queries, and the saving and reading back of price  *)
(* components (savePriceComponents, getItineraryPriceBreakdown); of the     *)
(* request handler of OlympicHubApiClient (src/unnamed/part_000); and of   *)
(* the two client components PackageBuilder and AiTravelAgent              *)
(* (src/components).                                                       *)
(*                                                                         *)
(* Money.  The code computes in IEEE doubles.  The model computes in exact *)
(* fixed point: an amount is an integer number of 1/Unit currency units,   *)
(* and Unit is chosen so that a percentage of a whole-unit price and 20%   *)
(* of that are both exact.  Rounding of doubles is not modelled.           *)
(*                                                                         *)
(* Optional values.  An optional number is <<>> (undefined / null) or      *)
(* <<n>>; an optional string is the string Undefined or the value.         *)
(***************************************************************************)
EXTENDS Integers, Sequences, FiniteSets, TLC

VARIABLES
    now,              \* the wall clock, ms since the epoch (new Date())
    marginRuleTable,  \* rows of prisma.marginRule
    pc,               \* position of the calculatePackagePrice call
    args,             \* its parameters, after default binding
    omitted,          \* which parameters the caller left out
    today,            \* its local `today`
    daysAdvance,      \* its local `daysAdvance`
    marginRules,      \* its local `marginRules` (the candidate list)
    result,           \* what the call returned
    prev,             \* what the previous call returned, when it had the same arguments
    priceComponentTable,  \* rows of prisma.priceComponent, in the order of their creation
    save,             \* the savePriceComponents call of each caller
    got,              \* what the last getItineraryPriceBreakdown returned
    config,           \* OlympicHubApiClient: this.config (its retries)
    configured,       \* the retries value the caller last configured, if any
    req,              \* the request call of the API client
    builderState,     \* PackageBuilder: builderState (its step)
    selectedItems,    \* PackageBuilder: selectedItems
    messages,         \* AiTravelAgent: messages
    input,            \* AiTravelAgent: input
    isLoading,        \* AiTravelAgent: isLoading
    timers,           \* AiTravelAgent: the pending setTimeout callbacks
    lastSubmit        \* AiTravelAgent: what handleSubmit did with the last submit

storeVars == <<priceComponentTable, save, got>>

engineVars == <<now, marginRuleTable, pc, args, omitted, today, daysAdvance, marginRules, result,
                prev, priceComponentTable, save, got>>

apiVars == <<config, configured, req>>
builderVars == <<builderState, selectedItems>>
chatVars == <<messages, input, isLoading, timers, lastSubmit>>

\* The state outside the PackagingEngine and its tables.
clientVars == <<apiVars, builderVars, chatVars>>

vars == <<now, marginRuleTable, pc, args, omitted, today, daysAdvance, marginRules, result, prev,
          priceComponentTable, save, got, config, configured, req, builderState, selectedItems,
          messages, input, isLoading, timers, lastSubmit>>

----------------------------------------------------------------------------
(* Bounds of the model *)

MaxRules == 2       \* rows in the margin-rule table

(* Program constants *)

TaxRatePct == 20
DefaultMarginPct == 10
MsPerDay == 1000 * 60 * 60 * 24
HourMs == 1000 * 60 * 60

(* 1/Unit is the smallest amount: hundredths for the percentage margin,    *)
(* times fifths for the 20% tax on it.                                     *)
Unit == 100 * (100 \div TaxRatePct)

Undefined == "undefined"
Null == <<>>
Some(n) == <<n>>
IsNull(x) == x = <<>>
Val(x) == x[1]

----------------------------------------------------------------------------
(* Sequences *)

RECURSIVE SeqSum(_)
SeqSum(s) == IF s = <<>> THEN 0 ELSE Head(s) + SeqSum(Tail(s))

Perms(S) ==
    {s \in [1..Cardinality(S) -> S] : \A i, j \in 1..Cardinality(S) : i # j => s[i] # s[j]}

----------------------------------------------------------------------------
(* The margin-rule rows the model draws the table from (MarginRule) *)

Rule(id, bda, season, category, pct, fixed, active, prio) ==
    [id |-> id, bookingDaysAdvance |-> bda, seasonType |-> season,
     packageCategory |-> category, marginPercent |-> pct, marginFixed |-> fixed,
     isActive |-> active, priority |-> prio]

\* A nullable column holds Null (a number) or Undefined (a string) when unset.
RuleUniverse ==
    { Rule("A", Null,    Undefined, Undefined, 10,  20, TRUE,   5),
      Rule("B", Some(0), "WINTER",  "CITY",    15,   0, TRUE,  10),
      Rule("C", Null,    "SUMMER",  "BEACH",   -5, -20, TRUE,   5),
      Rule("D", Null,    Undefined, Undefined, 50,   0, FALSE, 20) }

----------------------------------------------------------------------------
(* prisma.marginRule.findMany({where, orderBy}) *)

\* mutant: the {} member taken as a condition every row meets
FieldEqualsOrAny(requested, stored) ==
    IF requested # Undefined THEN stored = requested ELSE TRUE

\* One member of the OR list: a field condition, or {} when the request
\* carries no value for it.  Prisma strips an empty filter from an OR list
\* (an OR of no filters matches no row), so {} adds no row.
FieldEquals(requested, stored) ==
    IF requested # Undefined THEN stored = requested ELSE FALSE

\* mutant: the conditions joined by AND, an unset one met by every row
RuleWhereConjoined(r, days, category, seasonType) ==
    /\ r.isActive
    /\ (IsNull(r.bookingDaysAdvance) \/ Val(r.bookingDaysAdvance) >= days)
    /\ (r.packageCategory = Undefined \/ r.packageCategory = category)
    /\ (r.seasonType = Undefined \/ r.seasonType = seasonType)

RuleWhere(r, days, category, seasonType) ==
    /\ r.isActive
    /\ \/ (~IsNull(r.bookingDaysAdvance) /\ Val(r.bookingDaysAdvance) >= days)
       \/ FieldEquals(category, r.packageCategory)
       \/ FieldEquals(seasonType, r.seasonType)
       \/ /\ IsNull(r.bookingDaysAdvance)
          /\ r.packageCategory = Undefined
          /\ r.seasonType = Undefined

IsPriorityDesc(s) == \A i \in 1..(Len(s) - 1) : s[i].priority >= s[i + 1].priority

\* mutant: the query without its orderBy
Unordered(rows) == Perms(rows)

\* The possible answers to orderBy {priority: 'desc'}: the order of rows of
\* equal priority is the database's choice.
OrderByPriorityDesc(rows) == {s \in Perms(rows) : IsPriorityDesc(s)}

getApplicableMarginRules(days, category, seasonType) ==
    OrderByPriorityDesc({r \in marginRuleTable : RuleWhere(r, days, category, seasonType)})

----------------------------------------------------------------------------
(* applyMarginRules *)

\* mutant: the two terms without their > 0 guards
RuleMarginUnguarded(basePrice, topRule) ==
    (basePrice * topRule.marginPercent) \div 100 + topRule.marginFixed * Unit

RuleMargin(basePrice, topRule) ==
    (IF topRule.marginPercent > 0 THEN (basePrice * topRule.marginPercent) \div 100 ELSE 0)
    + (IF topRule.marginFixed > 0 THEN topRule.marginFixed * Unit ELSE 0)

\* mutant: no margin when no rule matches
DefaultMarginNone(basePrice) == 0

DefaultMargin(basePrice) == (basePrice * DefaultMarginPct) \div 100

\* mutant: every candidate rule applied, the margins added up
RECURSIVE StackedMargin(_, _)
StackedMargin(basePrice, rules) ==
    IF rules = <<>> THEN 0
    ELSE RuleMargin(basePrice, Head(rules)) + StackedMargin(basePrice, Tail(rules))

applyMarginRulesStacking(basePrice, rules) ==
    IF Len(rules) = 0
    THEN [totalMargin |-> DefaultMargin(basePrice), appliedRules |-> <<>>]
    ELSE [totalMargin |-> StackedMargin(basePrice, rules), appliedRules |-> rules]

applyMarginRules(basePrice, rules) ==
    IF Len(rules) = 0
    THEN [totalMargin |-> DefaultMargin(basePrice), appliedRules |-> <<>>]
    ELSE [totalMargin |-> RuleMargin(basePrice, rules[1]), appliedRules |-> <<rules[1]>>]

----------------------------------------------------------------------------
(* buildPriceBreakdown *)

Component(id, type, net, margin, tax, total, currency) ==
    [id |-> id, componentType |-> type, netPrice |-> net, marginAmount |-> margin,
     taxAmount |-> tax, totalPrice |-> total, currency |-> currency]

\* mutant: a line also for a price of 0
NetLineFromZero(id, type, price, currency) ==
    IF price >= 0 THEN <<Component(id, type, price, 0, 0, price, currency)>> ELSE <<>>

\* The flight, hotel and transfer blocks: a line when the net price is > 0.
NetLine(id, type, price, currency) ==
    IF price > 0 THEN <<Component(id, type, price, 0, 0, price, currency)>> ELSE <<>>

\* mutant: the margin entered as the line's net price as well
MarginLineAlsoNet(totalMargin, currency) ==
    Component("margin", "MARGIN", totalMargin, totalMargin, 0, totalMargin, currency)

MarginLine(totalMargin, currency) ==
    Component("margin", "MARGIN", 0, totalMargin, 0, totalMargin, currency)

TaxLine(taxAmount, currency) ==
    Component("tax", "TAX", 0, 0, taxAmount, taxAmount, currency)

\* mutant: the tax left out of the grand total
GrandTotalWithoutTax(subtotal, totalMargin, taxAmount) == subtotal + totalMargin

GrandTotalOf(subtotal, totalMargin, taxAmount) == subtotal + totalMargin + taxAmount

\* mutant: the margin and tax lines pushed before the net lines
buildPriceBreakdownTotalsFirst(flightPrice, hotelPrice, transferPrice, totalMargin, taxAmount, currency) ==
    LET components ==
            <<MarginLine(totalMargin, currency)>>
            \o <<TaxLine(taxAmount, currency)>>
            \o NetLine("flight", "FLIGHT", flightPrice, currency)
            \o NetLine("hotel", "HOTEL", hotelPrice, currency)
            \o NetLine("transfer", "TRANSFER", transferPrice, currency)
        subtotal == flightPrice + hotelPrice + transferPrice
        grandTotal == GrandTotalOf(subtotal, totalMargin, taxAmount)
    IN [components |-> components, subtotal |-> subtotal, totalMargin |-> totalMargin,
        totalTax |-> taxAmount, grandTotal |-> grandTotal, currency |-> currency]

buildPriceBreakdown(flightPrice, hotelPrice, transferPrice, totalMargin, taxAmount, currency) ==
    LET components ==
            NetLine("flight", "FLIGHT", flightPrice, currency)
            \o NetLine("hotel", "HOTEL", hotelPrice, currency)
            \o NetLine("transfer", "TRANSFER", transferPrice, currency)
            \o <<MarginLine(totalMargin, currency)>>
            \o <<TaxLine(taxAmount, currency)>>
        subtotal == flightPrice + hotelPrice + transferPrice
        grandTotal == GrandTotalOf(subtotal, totalMargin, taxAmount)
    IN [components |-> components, subtotal |-> subtotal, totalMargin |-> totalMargin,
        totalTax |-> taxAmount, grandTotal |-> grandTotal, currency |-> currency]

----------------------------------------------------------------------------
(* calculatePackagePrice, after the rule query has answered with `rules` *)

\* mutant: the tax taken at half the rate
TaxAtHalfRate(priceBeforeTax) == (priceBeforeTax * (TaxRatePct \div 2)) \div 100

TaxOf(priceBeforeTax) == (priceBeforeTax * TaxRatePct) \div 100

\* mutant: the transfer left out of the base price
BasePriceWithoutTransfer(flightPrice, hotelPrice, transferPrice) == flightPrice + hotelPrice

BasePriceOf(flightPrice, hotelPrice, transferPrice) == flightPrice + hotelPrice + transferPrice

\* The amounts, the breakdown and the applied rules.
PriceFields(a, rules) ==
    LET basePrice == BasePriceOf(a.flightPrice, a.hotelPrice, a.transferPrice)
        applied == applyMarginRules(basePrice, rules)
        totalMargin == applied.totalMargin
        priceBeforeTax == basePrice + totalMargin
        taxAmount == TaxOf(priceBeforeTax)
        totalPrice == priceBeforeTax + taxAmount
        breakdown == buildPriceBreakdown(a.flightPrice, a.hotelPrice, a.transferPrice,
                                         totalMargin, taxAmount, a.currency)
    IN [basePrice |-> basePrice, margin |-> totalMargin, tax |-> taxAmount,
        totalPrice |-> totalPrice, breakdown |-> breakdown,
        appliedRules |-> applied.appliedRules]

\* mutant: the itemized lines withheld when the opaque mask is on
PackageCalculationMasked(a, rules) ==
    LET c == PriceFields(a, rules)
    IN [kind |-> "PackageCalculation", basePrice |-> c.basePrice, margin |-> c.margin,
        tax |-> c.tax, totalPrice |-> c.totalPrice, currency |-> a.currency,
        breakdown |-> IF a.applyOpaqueMask
                      THEN [c.breakdown EXCEPT !.components = <<>>]
                      ELSE c.breakdown,
        appliedRules |-> c.appliedRules, opaqueMask |-> a.applyOpaqueMask]

\* The returned object.
PackageCalculation(a, rules) ==
    LET c == PriceFields(a, rules)
    IN [kind |-> "PackageCalculation", basePrice |-> c.basePrice, margin |-> c.margin,
        tax |-> c.tax, totalPrice |-> c.totalPrice, currency |-> a.currency,
        breakdown |-> c.breakdown, appliedRules |-> c.appliedRules,
        opaqueMask |-> a.applyOpaqueMask]

\* mutant: the quotient cut towards zero instead of floored
DaysAdvanceTruncated(checkInDate, t) ==
    IF checkInDate >= t THEN (checkInDate - t) \div MsPerDay
    ELSE 0 - ((t - checkInDate) \div MsPerDay)

DaysAdvanceOf(checkInDate, t) == (checkInDate - t) \div MsPerDay

----------------------------------------------------------------------------
(* prisma.priceComponent: deleteMany, create, findMany.  The table is the  *)
(* sequence of its rows in the order of their creation, and findMany       *)
(* answers in that order.  The id the database gives a row is not          *)
(* modelled: a row is told from an equal one by its place.                 *)

\* What a numeric column keeps of the number written to it, and gives back
\* to Number(): the number itself.
StoredValue(x) == x

\* The `data` of a create.
Row(itineraryId, c) ==
    [itineraryId |-> itineraryId, componentType |-> c.componentType,
     netPrice |-> StoredValue(c.netPrice), marginAmount |-> StoredValue(c.marginAmount),
     taxAmount |-> StoredValue(c.taxAmount), totalPrice |-> StoredValue(c.totalPrice),
     currency |-> c.currency]

\* mutant: no row deleted
DeleteNone(table, itineraryId) == table

DeleteMany(table, itineraryId) == SelectSeq(table, LAMBDA r : r.itineraryId # itineraryId)

FindMany(table, itineraryId) == SelectSeq(table, LAMBDA r : r.itineraryId = itineraryId)

----------------------------------------------------------------------------
(* getItineraryPriceBreakdown, on the rows findMany answered *)

RECURSIVE NetSubtotal(_)
NetSubtotal(cs) ==
    IF cs = <<>> THEN 0
    ELSE (IF Head(cs).componentType \in {"FLIGHT", "HOTEL", "TRANSFER"}
          THEN Head(cs).netPrice ELSE 0) + NetSubtotal(Tail(cs))

\* cs.find(c => c.componentType === type)?.[field] || 0
FirstOr0(cs, type, field) ==
    LET found == {i \in 1..Len(cs) : cs[i].componentType = type}
    IN IF found = {} THEN 0
       ELSE cs[CHOOSE i \in found : \A j \in found : i <= j][field]

ItineraryPriceBreakdown(components) ==
    IF Len(components) = 0 THEN [kind |-> "null"]
    ELSE LET typedComponents ==
                 [i \in 1..Len(components) |->
                     Component(i, components[i].componentType, components[i].netPrice,
                               components[i].marginAmount, components[i].taxAmount,
                               components[i].totalPrice, components[i].currency)]
             subtotal == NetSubtotal(typedComponents)
             totalMargin == FirstOr0(typedComponents, "MARGIN", "marginAmount")
             totalTax == FirstOr0(typedComponents, "TAX", "taxAmount")
             grandTotal == subtotal + totalMargin + totalTax
         IN [kind |-> "PriceBreakdown", components |-> typedComponents,
             subtotal |-> subtotal, totalMargin |-> totalMargin, totalTax |-> totalTax,
             grandTotal |-> grandTotal, currency |-> components[1].currency]

----------------------------------------------------------------------------
(* Inputs *)

FlightPrices == {Null, Some(-1), Some(0), Some(150)}
HotelPrices == {Null, Some(-1), Some(0), Some(700)}
TransferPrices == {Null, Some(-1), Some(0), Some(50)}
CheckInDates == {Null, Some(24 * HourMs)}
Categories == {Undefined, "BEACH"}
SeasonTypes == {Undefined, "SUMMER"}
OpaqueFlags == {Null, Some(TRUE), Some(FALSE)}
Currencies == {Undefined, "RSD"}
Instants == {0, HourMs, 2 * HourMs, 25 * HourMs}

\* A default parameter value: used when the argument is undefined.
Default(x, d) == IF IsNull(x) THEN d ELSE Val(x)
DefaultStr(x, d) == IF x = Undefined THEN d ELSE x

NoArgs == [flightPrice |-> 0, hotelPrice |-> 0, transferPrice |-> 0, checkInDate |-> Null,
           category |-> Undefined, seasonType |-> Undefined, applyOpaqueMask |-> TRUE,
           currency |-> "EUR"]
NoResult == [kind |-> "none"]
NoPrev == [kind |-> "none"]
Savers == {"s1", "s2"}
ItineraryIds == {"it1", "it2"}
NoSave == [pc |-> "idle"]
NoGot == [kind |-> "none"]
NoneOmitted == [flightPrice |-> FALSE, hotelPrice |-> FALSE, transferPrice |-> FALSE,
                applyOpaqueMask |-> FALSE]

----------------------------------------------------------------------------
(* OlympicHubApiClient: the constructor, updateConfig and request *)

DefaultRetries == 3

\* x || d on an optional number: undefined and 0 are both falsy.
OrDefault(x, d) == IF IsNull(x) \/ Val(x) = 0 THEN d ELSE Val(x)

\* The retries values a caller configures (Null: the option left out).
ConfiguredRetries == {Null, Some(0), Some(1), Some(2)}

\* How an attempt can end: the response is OK and its body parses; the
\* status is not OK; fetch rejects (network); the body of the OK response
\* does not parse; the timeout aborts the fetch.
Outcomes == {"ok", "http", "network", "json", "abort"}

\* error.name of what the catch block receives.
ErrorName(outcome) ==
    CASE outcome = "abort" -> "AbortError"
      [] outcome = "network" -> "TypeError"
      [] outcome = "json" -> "SyntaxError"
      [] outcome = "http" -> "Error"

\* mutant: an aborted attempt retried like any other failure
ShouldRetryAborted(retries, name) == retries > 0

\* The condition of the catch block (every error here is an Error).
ShouldRetry(retries, name) == retries > 0 /\ name # "AbortError"

NoReq == [pc |-> "idle"]
Success == [success |-> TRUE]
Failure == [success |-> FALSE, code |-> "API_ERROR"]

\* new OlympicHubApiClient({retries: R})
ApiInit(R) ==
    /\ config = [retries |-> Some(OrDefault(R, DefaultRetries))]
    /\ configured = R
    /\ req = NoReq

\* updateConfig({retries: R})
UpdateConfig(R) ==
    /\ config' = [config EXCEPT !.retries = R]
    /\ configured' = R
    /\ config' # config \/ configured' # configured
    /\ UNCHANGED <<req, builderVars, chatVars>>
    /\ UNCHANGED engineVars

\* request(endpoint, options) is called by one of the public methods, the
\* third parameter left to its default; the first fetch is sent.  `log` is
\* the list of the ends of the attempts so far, `R` the value configured
\* at the time of the call.
Request ==
    /\ req.pc = "idle"
    /\ req' = [pc |-> "fetch", retries |-> OrDefault(config.retries, DefaultRetries),
               R |-> configured, log |-> <<>>, response |-> [success |-> "none"]]
    /\ UNCHANGED <<config, configured, builderVars, chatVars>>
    /\ UNCHANGED engineVars

\* The attempt ends: with the return of the success object, or in the catch
\* block, which waits for the retry or returns the failure object.
Attempt(outcome) ==
    /\ req.pc = "fetch"
    /\ req' = [req EXCEPT
                 !.log = Append(@, outcome),
                 !.pc = IF outcome = "ok" THEN "returned"
                        ELSE IF ShouldRetry(req.retries, ErrorName(outcome)) THEN "wait"
                        ELSE "returned",
                 !.response = IF outcome = "ok" THEN Success
                              ELSE IF ShouldRetry(req.retries, ErrorName(outcome)) THEN @
                              ELSE Failure]
    /\ UNCHANGED <<config, configured, builderVars, chatVars>>
    /\ UNCHANGED engineVars

\* The second of delay is over: this.request(endpoint, options, retries - 1).
RetryAfterDelay ==
    /\ req.pc = "wait"
    /\ req' = [req EXCEPT !.pc = "fetch", !.retries = @ - 1]
    /\ UNCHANGED <<config, configured, builderVars, chatVars>>
    /\ UNCHANGED engineVars

\* The caller has the ApiResponse.
ApiReturn ==
    /\ req.pc = "returned"
    /\ req' = NoReq
    /\ UNCHANGED <<config, configured, builderVars, chatVars>>
    /\ UNCHANGED engineVars

----------------------------------------------------------------------------
(* PackageBuilder.  A click is handled with the state of the last render,  *)
(* and every click is followed by a render before the next one is handled, *)
(* so a handler reads the current state.  The panel of a step, and with it *)
(* its buttons, is rendered only at that step.                             *)

\* The ids of mockFlights, mockHotels and mockTransfers.
MockFlights == {"1"}
MockHotels == {"1"}
MockTransfers == {"1"}

BuilderInit ==
    /\ builderState = [travelers |-> 2, step |-> "FLIGHT"]
    /\ selectedItems = [flight |-> Null, hotel |-> Null, transfer |-> Null]

selectFlight(flight) ==
    /\ builderState.step = "FLIGHT"
    /\ selectedItems' = [selectedItems EXCEPT !.flight = Some(flight)]
    /\ builderState' = [builderState EXCEPT !.step = "HOTEL"]
    /\ UNCHANGED <<apiVars, chatVars>>
    /\ UNCHANGED engineVars

\* mutant: the hotel click leads to the room step
selectHotelThenRoom(hotel) ==
    /\ builderState.step = "HOTEL"
    /\ selectedItems' = [selectedItems EXCEPT !.hotel = Some(hotel)]
    /\ builderState' = [builderState EXCEPT !.step = "ROOM"]
    /\ UNCHANGED <<apiVars, chatVars>>
    /\ UNCHANGED engineVars

selectHotel(hotel) ==
    /\ builderState.step = "HOTEL"
    /\ selectedItems' = [selectedItems EXCEPT !.hotel = Some(hotel)]
    /\ builderState' = [builderState EXCEPT !.step = "TRANSFER"]
    /\ UNCHANGED <<apiVars, chatVars>>
    /\ UNCHANGED engineVars

selectTransfer(transfer) ==
    /\ builderState.step = "TRANSFER"
    /\ selectedItems' = [selectedItems EXCEPT !.transfer = Some(transfer)]
    /\ builderState' = [builderState EXCEPT !.step = "REVIEW"]
    /\ UNCHANGED <<apiVars, chatVars>>
    /\ UNCHANGED engineVars

----------------------------------------------------------------------------
(* AiTravelAgent.  A text is the sequence of its tokens, each a blank or a *)
(* word.  As in the builder, a handler reads the state of a render that    *)
(* followed the last event.                                                *)

MaxMessages == 7    \* messages in the list

Blank == " "

\* What the user types.
Texts == {<<>>, <<Blank>>, <<Blank, "pool", Blank>>, <<"BUDGET">>, <<"hello">>}

RECURSIVE TrimStart(_)
TrimStart(t) == IF t # <<>> /\ Head(t) = Blank THEN TrimStart(Tail(t)) ELSE t

RECURSIVE TrimEnd(_)
TrimEnd(t) ==
    IF t # <<>> /\ t[Len(t)] = Blank THEN TrimEnd(SubSeq(t, 1, Len(t) - 1)) ELSE t

\* String.prototype.trim
Trim(t) == TrimEnd(TrimStart(t))

ToLowerCase(token) == IF token = "BUDGET" THEN "budget" ELSE token

\* input.toLowerCase().includes(word)
Includes(t, word) == \E i \in 1..Len(t) : ToLowerCase(t[i]) = word

\* The assistant message the timer callback builds for the input it closed over.
Reply(inputText) ==
    IF Includes(inputText, "pool") THEN "pools"
    ELSE IF Includes(inputText, "budget") \/ Includes(inputText, "cheap") THEN "budget"
    ELSE "more"

Message(role, content) == [role |-> role, content |-> content]

ChatInit ==
    /\ messages = <<Message("assistant", "greeting")>>
    /\ input = <<>>
    /\ isLoading = FALSE
    /\ timers = <<>>
    /\ lastSubmit = "none"

\* mutant: the input taken as it is, not trimmed
AcceptsUntrimmed(inputText, loading) == inputText # <<>> /\ ~loading

\* The guard of handleSubmit, negated: if (!input.trim() || isLoading) return
Accepts(inputText, loading) == Trim(inputText) # <<>> /\ ~loading

\* onChange of the input, which is disabled while a reply is pending.
OnChange(text) ==
    /\ ~isLoading
    /\ text # input
    /\ input' = text
    /\ UNCHANGED <<messages, isLoading, timers, lastSubmit, apiVars, builderVars>>
    /\ UNCHANGED engineVars

\* handleSubmit past its guard: the user message appended, the input
\* cleared, isLoading set and the reply timer started with the input.
HandleSubmit ==
    /\ Accepts(input, isLoading)
    /\ Len(messages) + 2 <= MaxMessages
    /\ messages' = Append(messages, Message("user", input))
    /\ input' = <<>>
    /\ isLoading' = TRUE
    /\ timers' = Append(timers, [input |-> input])
    /\ lastSubmit' = "accepted"
    /\ UNCHANGED <<apiVars, builderVars>>
    /\ UNCHANGED engineVars

\* handleSubmit returning at its guard.
HandleSubmitIgnored ==
    /\ ~Accepts(input, isLoading)
    /\ lastSubmit # "ignored"
    /\ lastSubmit' = "ignored"
    /\ UNCHANGED <<messages, input, isLoading, timers, apiVars, builderVars>>
    /\ UNCHANGED engineVars

\* mutant: the callback appends the reply and leaves isLoading set
TimerFiresStillLoading ==
    /\ timers # <<>>
    /\ messages' = Append(messages, Message("assistant", Reply(Head(timers).input)))
    /\ timers' = Tail(timers)
    /\ UNCHANGED <<input, isLoading, lastSubmit, apiVars, builderVars>>
    /\ UNCHANGED engineVars

\* The setTimeout callback runs, 1500 ms after the submit.
TimerFires ==
    /\ timers # <<>>
    /\ messages' = Append(messages, Message("assistant", Reply(Head(timers).input)))
    /\ isLoading' = FALSE
    /\ timers' = Tail(timers)
    /\ UNCHANGED <<input, lastSubmit, apiVars, builderVars>>
    /\ UNCHANGED engineVars

----------------------------------------------------------------------------
EngineInit ==
    /\ now = 0
    /\ marginRuleTable \in {T \in SUBSET RuleUniverse : Cardinality(T) <= MaxRules}
    /\ pc = "idle"
    /\ args = NoArgs
    /\ omitted = NoneOmitted
    /\ today = 0
    /\ daysAdvance = 0
    /\ marginRules = <<>>
    /\ result = NoResult
    /\ prev = NoPrev
    /\ priceComponentTable = <<>>
    /\ save = [p \in Savers |-> NoSave]
    /\ got = NoGot

\* The engine and its tables, next to a client built with no configuration
\* and the two components as first rendered.
Init ==
    /\ EngineInit
    /\ ApiInit(Null)
    /\ BuilderInit
    /\ ChatInit

\* Time passes.
Tick ==
    /\ \E t \in Instants : t > now /\ now' = t
    /\ UNCHANGED <<marginRuleTable, pc, args, omitted, today, daysAdvance, marginRules, result, prev>>
    /\ UNCHANGED storeVars
    /\ UNCHANGED clientVars

\* The start of calculatePackagePrice with parameters `a`: `today` read,
\* daysAdvance computed, the rule query sent.  A missing checkInDate makes
\* checkInDate.getTime() throw a TypeError.
Call(a) ==
    /\ args' = a
    /\ today' = now
    /\ marginRules' = <<>>
    /\ IF IsNull(a.checkInDate)
       THEN /\ pc' = "threw"
            /\ result' = [kind |-> "TypeError"]
            /\ UNCHANGED daysAdvance
       ELSE /\ pc' = "query"
            /\ result' = NoResult
            /\ daysAdvance' = DaysAdvanceOf(Val(a.checkInDate), now)
    /\ UNCHANGED <<now, marginRuleTable>>
    /\ UNCHANGED storeVars
    /\ UNCHANGED clientVars

\* calculatePackagePrice is called with arguments from the given sets.
CalculateOver(F, H, T, D, C, S, O, Cur) ==
    /\ pc = "idle"
    /\ \E f \in F, h \in H, t \in T, d \in D, c \in C, s \in S, o \in O, cur \in Cur :
        /\ Call([flightPrice |-> Default(f, 0) * Unit,
                 hotelPrice |-> Default(h, 0) * Unit,
                 transferPrice |-> Default(t, 0) * Unit,
                 checkInDate |-> d, category |-> c, seasonType |-> s,
                 applyOpaqueMask |-> Default(o, TRUE),
                 currency |-> DefaultStr(cur, "EUR")])
        /\ omitted' = [flightPrice |-> IsNull(f), hotelPrice |-> IsNull(h),
                       transferPrice |-> IsNull(t), applyOpaqueMask |-> IsNull(o)]
    /\ prev' = NoPrev

\* calculatePackagePrice is called with any arguments.
CalculatePackagePrice ==
    CalculateOver(FlightPrices, HotelPrices, TransferPrices, CheckInDates,
                  Categories, SeasonTypes, OpaqueFlags, Currencies)

\* The caller repeats the call it has the result of, with the same
\* arguments; `prev` keeps the earlier call for comparison.
CalculateAgain ==
    /\ pc = "done"
    /\ prev = NoPrev
    /\ Call(args)
    /\ prev' = [kind |-> "call", args |-> args, today |-> today, daysAdvance |-> daysAdvance,
                marginRules |-> marginRules, result |-> result]
    /\ UNCHANGED omitted

\* The caller repeats the call with the other value of applyOpaqueMask and
\* everything else the same.
CalculateWithOtherMask ==
    /\ pc = "done"
    /\ prev = NoPrev
    /\ Call([args EXCEPT !.applyOpaqueMask = ~@])
    /\ prev' = [kind |-> "call", args |-> args, today |-> today, daysAdvance |-> daysAdvance,
                marginRules |-> marginRules, result |-> result]
    /\ omitted' = [omitted EXCEPT !.applyOpaqueMask = FALSE]

\* mutant: the calculation also writes its lines to the table
RulesFetchedAndStored ==
    /\ pc = "query"
    /\ \E rules \in getApplicableMarginRules(daysAdvance, args.category, args.seasonType) :
        /\ marginRules' = rules
        /\ result' = PackageCalculation(args, rules)
        /\ priceComponentTable' =
              priceComponentTable
              \o [i \in 1..Len(PackageCalculation(args, rules).breakdown.components) |->
                     Row("it1", PackageCalculation(args, rules).breakdown.components[i])]
    /\ pc' = "done"
    /\ UNCHANGED <<now, marginRuleTable, args, omitted, today, daysAdvance, prev, save, got>>
    /\ UNCHANGED clientVars

\* The rule query answers and the call runs to its return.
RulesFetched ==
    /\ pc = "query"
    /\ \E rules \in getApplicableMarginRules(daysAdvance, args.category, args.seasonType) :
        /\ marginRules' = rules
        /\ result' = PackageCalculation(args, rules)
    /\ pc' = "done"
    /\ UNCHANGED <<now, marginRuleTable, args, omitted, today, daysAdvance, prev>>
    /\ UNCHANGED storeVars
    /\ UNCHANGED clientVars

\* The caller is done with what the call returned or threw: nothing of the
\* call is left (PackagingEngine has no fields).
Return ==
    /\ pc \in {"done", "threw"}
    /\ pc' = "idle"
    /\ args' = NoArgs
    /\ omitted' = NoneOmitted
    /\ today' = 0
    /\ daysAdvance' = 0
    /\ marginRules' = <<>>
    /\ result' = NoResult
    /\ prev' = NoPrev
    /\ UNCHANGED <<now, marginRuleTable>>
    /\ UNCHANGED storeVars
    /\ UNCHANGED clientVars

Next == Tick \/ CalculatePackagePrice \/ RulesFetched \/ Return

Spec == Init /\ [][Next]_vars

\* The same, with callers that repeat a call.
NextRepeat == Next \/ CalculateAgain \/ CalculateWithOtherMask

SpecRepeat == Init /\ [][NextRepeat]_vars

----------------------------------------------------------------------------
(* savePriceComponents and getItineraryPriceBreakdown *)

\* A write of caller p to the table: the saves of the other callers are no
\* longer alone with it.
Disturbed(p, sv) ==
    [q \in Savers |->
        IF q # p /\ sv[q].pc # "idle" THEN [sv[q] EXCEPT !.alone = FALSE] ELSE sv[q]]

\* savePriceComponents(itineraryId, calculation) is called with a calculation
\* the calculator returned; deleteMany is sent.
SavePriceComponents(p) ==
    /\ save[p].pc = "idle"
    /\ pc = "done"
    /\ \E id \in ItineraryIds :
        save' = [save EXCEPT ![p] =
                    [pc |-> "delete", itineraryId |-> id, breakdown |-> result.breakdown,
                     next |-> 1, alone |-> TRUE, before |-> priceComponentTable]]
    /\ got' = NoGot
    /\ UNCHANGED <<now, marginRuleTable, pc, args, omitted, today, daysAdvance, marginRules,
                   result, prev, priceComponentTable>>
    /\ UNCHANGED clientVars

\* deleteMany({where: {itineraryId}}) runs.
SaveDelete(p) ==
    /\ save[p].pc = "delete"
    /\ priceComponentTable' = DeleteMany(priceComponentTable, save[p].itineraryId)
    /\ save' = Disturbed(p, [save EXCEPT ![p].pc = "create"])
    /\ got' = NoGot
    /\ UNCHANGED <<now, marginRuleTable, pc, args, omitted, today, daysAdvance, marginRules,
                   result, prev>>
    /\ UNCHANGED clientVars

\* One turn of the loop: create() of the next component runs.
SaveCreate(p) ==
    /\ save[p].pc = "create"
    /\ priceComponentTable' =
          Append(priceComponentTable,
                 Row(save[p].itineraryId, save[p].breakdown.components[save[p].next]))
    /\ save' = Disturbed(p, [save EXCEPT
                  ![p].next = @ + 1,
                  ![p].pc = IF save[p].next = Len(save[p].breakdown.components)
                            THEN "done" ELSE "create"])
    /\ got' = NoGot
    /\ UNCHANGED <<now, marginRuleTable, pc, args, omitted, today, daysAdvance, marginRules,
                   result, prev>>
    /\ UNCHANGED clientVars

\* getItineraryPriceBreakdown(itineraryId): findMany runs and the breakdown
\* is built from its answer.  `got` is what it returned, kept until the next
\* step of a save.
GetItineraryPriceBreakdown ==
    /\ \E id \in ItineraryIds :
        /\ got # [kind |-> "returned", itineraryId |-> id,
                  value |-> ItineraryPriceBreakdown(FindMany(priceComponentTable, id))]
        /\ got' = [kind |-> "returned", itineraryId |-> id,
                   value |-> ItineraryPriceBreakdown(FindMany(priceComponentTable, id))]
    /\ UNCHANGED <<now, marginRuleTable, pc, args, omitted, today, daysAdvance, marginRules,
                   result, prev, priceComponentTable, save>>
    /\ UNCHANGED clientVars

\* The calculator called by the callers that save what it returns.
CalculateForSaving ==
    CalculateOver({Some(-1), Some(0), Some(150)}, {Null}, {Null}, {Some(24 * HourMs)},
                  {Undefined}, {Undefined}, {Null}, {Undefined})

InitStore ==
    /\ Init
    /\ Cardinality(marginRuleTable) = 1
    /\ \A r \in marginRuleTable : r.id = "A"

NextStore ==
    \/ CalculateForSaving \/ RulesFetched \/ Return
    \/ \E p \in Savers : SavePriceComponents(p)
    \/ \E p \in Savers : SaveDelete(p)
    \/ \E p \in Savers : SaveCreate(p)
    \/ GetItineraryPriceBreakdown

SpecStore == InitStore /\ [][NextStore]_vars

\* A create() of the loop rejects (the database refuses the row or cannot be
\* reached): the exception leaves the loop and savePriceComponents, which
\* has no catch; nothing is written by the rejected create and nothing
\* written before it is undone.
SaveCreateFails(p) ==
    /\ save[p].pc = "create"
    /\ save' = [save EXCEPT ![p].pc = "failed"]
    /\ got' = NoGot
    /\ UNCHANGED <<now, marginRuleTable, pc, args, omitted, today, daysAdvance, marginRules,
                   result, prev, priceComponentTable>>
    /\ UNCHANGED clientVars

\* The same, with creates that can fail.
NextStoreFailing == NextStore \/ \E p \in Savers : SaveCreateFails(p)

SpecStoreFailing == InitStore /\ [][NextStoreFailing]_vars

----------------------------------------------------------------------------
(* The API client on its own *)

InitApi ==
    /\ EngineInit
    /\ marginRuleTable = {}
    /\ \E R \in ConfiguredRetries : ApiInit(R)
    /\ BuilderInit
    /\ ChatInit

NextApi ==
    \/ \E R \in ConfiguredRetries \ {Null} : UpdateConfig(R)
    \/ Request
    \/ \E outcome \in Outcomes : Attempt(outcome)
    \/ RetryAfterDelay
    \/ ApiReturn

SpecApi == InitApi /\ [][NextApi]_vars

(* The two components on their own *)

InitUi ==
    /\ Init
    /\ marginRuleTable = {}

NextUi ==
    \/ \E flight \in MockFlights : selectFlight(flight)
    \/ \E hotel \in MockHotels : selectHotel(hotel)
    \/ \E transfer \in MockTransfers : selectTransfer(transfer)
    \/ \E text \in Texts : OnChange(text)
    \/ HandleSubmit
    \/ HandleSubmitIgnored
    \/ TimerFires

SpecUi == InitUi /\ [][NextUi]_vars

\* A started timer fires.
SpecUiFair == SpecUi /\ WF_vars(TimerFires)

----------------------------------------------------------------------------
(* What the properties speak of *)

Returned == pc = "done"
Res == result
Range(s) == {s[i] : i \in 1..Len(s)}
Candidates == Range(marginRules)
TopOf(rules) == {r \in Range(rules) : \A q \in Range(rules) : r.priority >= q.priority}
TopCandidates == TopOf(marginRules)
NonNegativePrices == args.flightPrice >= 0 /\ args.hotelPrice >= 0 /\ args.transferPrice >= 0
NegativePrice == args.flightPrice < 0 \/ args.hotelPrice < 0 \/ args.transferPrice < 0
NetSum == args.flightPrice + args.hotelPrice + args.transferPrice
ComponentsOfType(type) == {i \in 1..Len(Res.breakdown.components) :
                             Res.breakdown.components[i].componentType = type}

\* The margin a rule gives, as the specification states it, in hundredths of
\* 1/Unit so that no division is needed.
StatedMargin100(basePrice, r) ==
    (IF r.marginPercent > 0 THEN basePrice * r.marginPercent ELSE 0)
    + (IF r.marginFixed > 0 THEN r.marginFixed * Unit * 100 ELSE 0)

----------------------------------------------------------------------------
\* C1: for non-negative prices and every candidate list, the result has
\* breakdown.grandTotal = breakdown.subtotal + breakdown.totalMargin +
\* breakdown.totalTax and totalPrice = basePrice + margin + tax.
C1_TotalInvariant ==
    (Returned /\ NonNegativePrices) =>
        /\ Res.breakdown.grandTotal
             = Res.breakdown.subtotal + Res.breakdown.totalMargin + Res.breakdown.totalTax
        /\ Res.totalPrice = Res.basePrice + Res.margin + Res.tax

C1_Witness ==
    /\ Returned /\ NonNegativePrices
    /\ Len(Res.appliedRules) = 1
    /\ Res.margin > 0 /\ Res.tax > 0
    /\ Res.breakdown.subtotal = 900 * Unit

\* C2: for every non-empty candidate list, whatever the order of the stored
\* rules, the rule applied is a candidate whose priority is the maximum over
\* all candidates.
C2_TopPriorityApplied ==
    (Returned /\ Candidates # {}) =>
        /\ Len(Res.appliedRules) = 1
        /\ Res.appliedRules[1] \in Candidates
        /\ \A r \in Candidates : Res.appliedRules[1].priority >= r.priority

C2_Witness ==
    /\ Returned
    /\ \E r, q \in Candidates : r.priority > q.priority
    /\ Res.appliedRules[1].id = "B"

\* C3: rules do not stack: exactly one applied rule for a non-empty candidate
\* list and none for an empty one, and the margin is the margin of the
\* selected, top-priority rule alone, whatever lower-priority rules are in the list.
C3_NoStacking ==
    Returned =>
        /\ Candidates = {} => Res.appliedRules = <<>>
        /\ Candidates # {} =>
              \E r \in TopCandidates :
                  /\ Res.appliedRules = <<r>>
                  /\ Res.margin * 100 = StatedMargin100(Res.basePrice, r)

C3_Witness ==
    /\ Returned
    /\ Cardinality(Candidates) = 2
    /\ Cardinality(TopCandidates) = 1
    /\ \E q \in Candidates \ TopCandidates : StatedMargin100(Res.basePrice, q) > 0
    /\ Res.margin > 0

\* C4: with an empty candidate list the calculation does not fail: it
\* returns a PackageCalculation with margin 10% of basePrice and no applied rule.
C4_DefaultMargin ==
    /\ (Returned /\ Candidates = {}) =>
          /\ Res.kind = "PackageCalculation"
          /\ Res.margin * 10 = Res.basePrice
          /\ Res.appliedRules = <<>>
    /\ pc = "threw" => IsNull(args.checkInDate)

C4_Witness ==
    /\ Returned /\ Candidates = {}
    /\ marginRuleTable # {}
    /\ Res.basePrice = 900 * Unit
    /\ Res.margin = 90 * Unit

\* C5: the margin of the selected rule is basePrice * marginPercent / 100
\* when marginPercent > 0 (else 0) plus marginFixed when marginFixed > 0
\* (else 0); so for a non-negative basePrice and any rule the margin is never
\* negative and totalPrice is never below basePrice.
C5_RuleMargin ==
    Returned =>
        /\ Candidates # {} =>
              Res.margin * 100 = StatedMargin100(Res.basePrice, Res.appliedRules[1])
        /\ Res.basePrice >= 0 => (Res.margin >= 0 /\ Res.totalPrice >= Res.basePrice)

C5_Witness ==
    /\ Returned
    /\ Res.basePrice > 0
    /\ Len(Res.appliedRules) = 1
    /\ Res.appliedRules[1].marginPercent < 0
    /\ Res.appliedRules[1].marginFixed < 0
    /\ Res.margin = 0

\* C6: the tax is 20% of basePrice + margin for every input and rule; prices
\* 150, 700, 50 with no candidate rule give basePrice 900, margin 90, tax 198
\* and totalPrice 1188.
C6_FlatTax ==
    Returned =>
        /\ Res.tax * 100 = 20 * (Res.basePrice + Res.margin)
        /\ (/\ args.flightPrice = 150 * Unit /\ args.hotelPrice = 700 * Unit
            /\ args.transferPrice = 50 * Unit /\ Candidates = {}) =>
              /\ Res.basePrice = 900 * Unit /\ Res.margin = 90 * Unit
              /\ Res.tax = 198 * Unit /\ Res.totalPrice = 1188 * Unit

C6_Witness ==
    /\ Returned /\ Candidates = {}
    /\ args.flightPrice = 150 * Unit /\ args.hotelPrice = 700 * Unit
    /\ args.transferPrice = 50 * Unit
    /\ Res.tax = 198 * Unit

\* C7: a call with a negative flight, hotel or transfer price ends in an
\* InvalidInput error before any price arithmetic, and returns no
\* PackageCalculation.
C7_NegativeRejected ==
    NegativePrice =>
        /\ pc # "query"
        /\ pc = "done" => Res.kind = "InvalidInput"

\* C8: two calls with identical prices, identical options and an identical
\* stored rule set return identical results, whatever their evaluation
\* instants.  Stated for the calls whose query has one possible answer for
\* the top rule (no two candidates share the highest priority), so that a
\* difference is due to the instants alone.
C8_SameResultAtAnyInstant ==
    (/\ Returned /\ prev.kind = "call" /\ prev.args = args
     /\ Cardinality(TopCandidates) <= 1
     /\ Cardinality(TopOf(prev.marginRules)) <= 1) => Res = prev.result

\* C8 as amended: two such calls return identical results when the two
\* instants give the same advance-booking days and no two candidate rules
\* share the highest priority.
C8_SameResultForSameDays ==
    (/\ Returned /\ prev.kind = "call" /\ prev.args = args
     /\ daysAdvance = prev.daysAdvance
     /\ Cardinality(TopCandidates) <= 1) => Res = prev.result

C8_Witness ==
    /\ Returned /\ prev.kind = "call" /\ prev.args = args
    /\ today # prev.today
    /\ daysAdvance = prev.daysAdvance
    /\ Cardinality(Candidates) = 2
    /\ Cardinality(TopCandidates) = 1
    /\ Res = prev.result

\* C9: for non-negative prices, each 0 when omitted, basePrice is
\* flightPrice + hotelPrice + transferPrice, and so is breakdown.subtotal.
C9_Additivity ==
    /\ pc # "idle" =>
          /\ omitted.flightPrice => args.flightPrice = 0
          /\ omitted.hotelPrice => args.hotelPrice = 0
          /\ omitted.transferPrice => args.transferPrice = 0
    /\ (Returned /\ NonNegativePrices) =>
          /\ Res.basePrice = NetSum
          /\ Res.breakdown.subtotal = NetSum

C9_Witness ==
    /\ Returned
    /\ omitted.hotelPrice
    /\ args.flightPrice = 150 * Unit /\ args.transferPrice = 50 * Unit
    /\ Res.basePrice = 200 * Unit

\* C10: a FLIGHT, HOTEL or TRANSFER component is in the breakdown if and only
\* if its net price is greater than 0; exactly one MARGIN and exactly one TAX
\* component are there for every input, also with amount 0.
C10_ComponentPresence ==
    Returned =>
        /\ ComponentsOfType("FLIGHT") # {} <=> args.flightPrice > 0
        /\ ComponentsOfType("HOTEL") # {} <=> args.hotelPrice > 0
        /\ ComponentsOfType("TRANSFER") # {} <=> args.transferPrice > 0
        /\ Cardinality(ComponentsOfType("MARGIN")) = 1
        /\ Cardinality(ComponentsOfType("TAX")) = 1

C10_Witness ==
    /\ Returned
    /\ ~omitted.hotelPrice /\ args.hotelPrice = 0
    /\ args.flightPrice > 0
    /\ Res.margin = 0
    /\ Cardinality(ComponentsOfType("MARGIN")) = 1
    /\ ComponentsOfType("HOTEL") = {}

----------------------------------------------------------------------------
(* Sums over the lines of a breakdown *)

RECURSIVE SumOf(_, _)
SumOf(components, field) ==
    IF components = <<>> THEN 0
    ELSE Head(components)[field] + SumOf(Tail(components), field)

\* C11: every component of every breakdown has
\* totalPrice = netPrice + marginAmount + taxAmount.
C11_ComponentTotal ==
    Returned =>
        \A i \in 1..Len(Res.breakdown.components) :
            LET c == Res.breakdown.components[i]
            IN c.totalPrice = c.netPrice + c.marginAmount + c.taxAmount

C11_Witness ==
    /\ Returned
    /\ Len(Res.breakdown.components) = 5
    /\ Res.margin > 0 /\ Res.tax > 0

\* C12: in every breakdown the components sum to the aggregate field by
\* field: netPrice to subtotal, marginAmount to totalMargin, taxAmount to
\* totalTax and totalPrice to grandTotal.
C12_ComponentsSumToAggregate ==
    Returned =>
        /\ SumOf(Res.breakdown.components, "netPrice") = Res.breakdown.subtotal
        /\ SumOf(Res.breakdown.components, "marginAmount") = Res.breakdown.totalMargin
        /\ SumOf(Res.breakdown.components, "taxAmount") = Res.breakdown.totalTax
        /\ SumOf(Res.breakdown.components, "totalPrice") = Res.breakdown.grandTotal

\* C15: every rule the query returns is active and matches on the
\* advance-days threshold (as the query compares it: bookingDaysAdvance >=
\* daysAdvance), or has the requested category, or has the requested season,
\* or has all three fields null, also for a request without category or
\* season; an inactive rule is never applied.
MatchesDays(r) == ~IsNull(r.bookingDaysAdvance) /\ Val(r.bookingDaysAdvance) >= daysAdvance
MatchesCategory(r) == args.category # Undefined /\ r.packageCategory = args.category
MatchesSeason(r) == args.seasonType # Undefined /\ r.seasonType = args.seasonType
IsGlobal(r) ==
    IsNull(r.bookingDaysAdvance) /\ r.packageCategory = Undefined /\ r.seasonType = Undefined

C15_CandidatesMatch ==
    Returned =>
        /\ \A r \in Candidates :
              /\ r.isActive
              /\ MatchesDays(r) \/ MatchesCategory(r) \/ MatchesSeason(r) \/ IsGlobal(r)
        /\ \A i \in 1..Len(Res.appliedRules) : Res.appliedRules[i].isActive

C15_Witness ==
    /\ Returned
    /\ args.category = Undefined
    /\ Candidates # {}
    /\ \E r \in marginRuleTable : ~r.isActive
    /\ \E r \in Candidates : MatchesSeason(r) /\ ~IsGlobal(r)

\* C17: the advance-booking days are the floor of (checkInDate - now) / one
\* day, from the one reading of now the call made: 23 hours ahead give 0, a
\* check-in less than a day in the past gives -1.
C17_FloorOfDays ==
    pc \in {"query", "done"} =>
        LET diff == Val(args.checkInDate) - today
        IN /\ today <= now
           /\ daysAdvance * (24 * HourMs) <= diff
           /\ diff < (daysAdvance + 1) * (24 * HourMs)
           /\ diff = 23 * HourMs => daysAdvance = 0
           /\ (diff < 0 /\ diff > 0 - 24 * HourMs) => daysAdvance = 0 - 1

C17_Witness ==
    /\ Returned
    /\ today = HourMs /\ now = 25 * HourMs
    /\ Val(args.checkInDate) = 24 * HourMs
    /\ daysAdvance = 0

\* C18: applyOpaqueMask does not touch the arithmetic: two calls that differ
\* only in it (and get the same candidate list) agree in basePrice, margin,
\* tax, totalPrice, breakdown and appliedRules; opaqueMask is the flag passed,
\* and true when the flag is omitted.
C18_OpaqueMaskPassthrough ==
    Returned =>
        /\ Res.opaqueMask = args.applyOpaqueMask
        /\ omitted.applyOpaqueMask => Res.opaqueMask = TRUE
        /\ (/\ prev.kind = "call"
            /\ prev.args = [args EXCEPT !.applyOpaqueMask = ~@]
            /\ prev.marginRules = marginRules) =>
              /\ Res.basePrice = prev.result.basePrice
              /\ Res.margin = prev.result.margin
              /\ Res.tax = prev.result.tax
              /\ Res.totalPrice = prev.result.totalPrice
              /\ Res.breakdown = prev.result.breakdown
              /\ Res.appliedRules = prev.result.appliedRules

C18_Witness ==
    /\ Returned
    /\ prev.kind = "call"
    /\ prev.args = [args EXCEPT !.applyOpaqueMask = ~@]
    /\ prev.marginRules = marginRules
    /\ Res.opaqueMask = FALSE /\ prev.result.opaqueMask = TRUE
    /\ Res.margin > 0
    /\ Len(Res.breakdown.components) = 5

\* C19: the top-level fields of a PackageCalculation agree with its
\* breakdown: basePrice = subtotal, margin = totalMargin, tax = totalTax,
\* totalPrice = grandTotal.
C19_TopLevelAgreesWithBreakdown ==
    Returned =>
        /\ Res.basePrice = Res.breakdown.subtotal
        /\ Res.margin = Res.breakdown.totalMargin
        /\ Res.tax = Res.breakdown.totalTax
        /\ Res.totalPrice = Res.breakdown.grandTotal

C19_Witness ==
    /\ Returned
    /\ args.transferPrice > 0 /\ args.flightPrice > 0
    /\ Res.margin > 0
    /\ Res.totalPrice = Res.breakdown.grandTotal

----------------------------------------------------------------------------
(* Stored lines against the lines of a breakdown *)

SameLine(row, c) ==
    /\ row.componentType = c.componentType
    /\ row.netPrice = c.netPrice /\ row.marginAmount = c.marginAmount
    /\ row.taxAmount = c.taxAmount /\ row.totalPrice = c.totalPrice
    /\ row.currency = c.currency

SameLines(rows, components) ==
    /\ Len(rows) = Len(components)
    /\ \A i \in 1..Len(rows) : SameLine(rows[i], components[i])

StoredFor(id) == FindMany(priceComponentTable, id)
SavedAlone(p) == save[p].pc = "done" /\ save[p].alone

\* C13: after a savePriceComponents(itineraryId, calculation) that ran to
\* its end with no other write to the table in between, the stored
\* components of the itinerary are exactly those of calculation.breakdown,
\* and those of every other itinerary are as before the call.
C13_FullReplace ==
    \A p \in Savers :
        SavedAlone(p) =>
            /\ SameLines(StoredFor(save[p].itineraryId), save[p].breakdown.components)
            /\ \A other \in ItineraryIds \ {save[p].itineraryId} :
                  StoredFor(other) = FindMany(save[p].before, other)

C13_Witness ==
    \E p \in Savers :
        /\ SavedAlone(p)
        /\ Len(FindMany(save[p].before, save[p].itineraryId)) = 3
        /\ Len(StoredFor(save[p].itineraryId)) = 2

\* C14: for every calculation c of the calculator, savePriceComponents(id, c)
\* followed by getItineraryPriceBreakdown(id), with nothing in between,
\* returns a breakdown with the subtotal, totalMargin, totalTax and
\* grandTotal of c.breakdown.
C14_RoundTrip ==
    \A p \in Savers :
        (SavedAlone(p) /\ got.kind = "returned" /\ got.itineraryId = save[p].itineraryId) =>
            /\ got.value.kind = "PriceBreakdown"
            /\ got.value.subtotal = save[p].breakdown.subtotal
            /\ got.value.totalMargin = save[p].breakdown.totalMargin
            /\ got.value.totalTax = save[p].breakdown.totalTax
            /\ got.value.grandTotal = save[p].breakdown.grandTotal

\* C16: calculatePackagePrice has no effect on what is stored: no step of a
\* call changes the stored margin rules or the stored price components.
C16_CalculationWritesNothing ==
    [][(pc' # pc \/ result' # result \/ marginRules' # marginRules \/ args' # args)
          => (marginRuleTable' = marginRuleTable
              /\ priceComponentTable' = priceComponentTable)]_vars

C16_Witness ==
    /\ Returned
    /\ marginRuleTable # {}
    /\ priceComponentTable # <<>>
    /\ \E p \in Savers : save[p].pc = "create"

\* C20: when two savePriceComponents calls for the same itinerary run
\* concurrently, their deletes and creates interleaved in any order, the
\* components stored for the itinerary after both are exactly those of one
\* of the two breakdowns, never a merge.
C20_ReplaceUnderInterleaving ==
    (/\ \A p \in Savers : save[p].pc = "done"
     /\ \A p, q \in Savers : save[p].itineraryId = save[q].itineraryId) =>
        \E p \in Savers :
            SameLines(StoredFor(save[p].itineraryId), save[p].breakdown.components)

\* C21: a getItineraryPriceBreakdown(id) that runs while one
\* savePriceComponents(id, c) is under way returns the breakdown stored
\* before the save (null if there was none) or a breakdown with the totals
\* of c.breakdown, never null or a breakdown of part of the components.
SameTotals(value, breakdown) ==
    /\ value.kind = "PriceBreakdown"
    /\ value.subtotal = breakdown.subtotal
    /\ value.totalMargin = breakdown.totalMargin
    /\ value.totalTax = breakdown.totalTax
    /\ value.grandTotal = breakdown.grandTotal

C21_ReadDuringSave ==
    \A p \in Savers :
        (/\ save[p].pc \in {"delete", "create", "done"} /\ save[p].alone
         /\ got.kind = "returned" /\ got.itineraryId = save[p].itineraryId) =>
            \/ got.value = ItineraryPriceBreakdown(FindMany(save[p].before, save[p].itineraryId))
            \/ SameTotals(got.value, save[p].breakdown)

\* C22: when savePriceComponents fails in the creation of a component, the
\* components stored for the itinerary are those stored before the call.
C22_SaveAllOrNothing ==
    \A p \in Savers :
        (save[p].pc = "failed" /\ save[p].alone) =>
            StoredFor(save[p].itineraryId) = FindMany(save[p].before, save[p].itineraryId)

----------------------------------------------------------------------------
(* Which rule is a candidate *)

\* C23: an active rule that meets the query's advance-days condition (as the
\* query compares it) and has a category and a season that are both set and
\* both other than the booking's is a candidate, and when its priority is
\* above that of every other candidate it is the rule applied, also when a
\* candidate of lower priority has the booking's category and season.
DaysOnly(r) ==
    /\ r.isActive /\ MatchesDays(r)
    /\ r.packageCategory # Undefined /\ r.packageCategory # args.category
    /\ r.seasonType # Undefined /\ r.seasonType # args.seasonType

C23_DaysOnlyRuleOutranks ==
    Returned =>
        \A r \in marginRuleTable :
            DaysOnly(r) =>
                /\ r \in Candidates
                /\ (\A q \in Candidates \ {r} : q.priority < r.priority) =>
                      Res.appliedRules = <<r>>

C23_Witness ==
    /\ Returned
    /\ \E r \in marginRuleTable, q \in Candidates :
        /\ DaysOnly(r)
        /\ MatchesCategory(q) /\ MatchesSeason(q)
        /\ q.priority < r.priority
        /\ Res.appliedRules = <<r>>

\* C24: bookingDaysAdvance T is a minimum: a rule that can match on nothing
\* but the advance days is a candidate exactly when the booking's advance
\* days are at least T, and a rule without bookingDaysAdvance is eligible on
\* that dimension whatever the advance days.
OnlyDaysCanMatch(r) ==
    /\ r.isActive /\ ~IsGlobal(r)
    /\ ~MatchesCategory(r) /\ ~MatchesSeason(r)

C24_MinimumThreshold ==
    Returned =>
        \A r \in marginRuleTable :
            OnlyDaysCanMatch(r) =>
                (r \in Candidates <=>
                    (IsNull(r.bookingDaysAdvance) \/ daysAdvance >= Val(r.bookingDaysAdvance)))

\* C25: the components of every breakdown are in the order FLIGHT, HOTEL,
\* TRANSFER, MARGIN, TAX, the absent ones skipped, so the last two are
\* MARGIN and TAX.
Rank(type) ==
    CASE type = "FLIGHT" -> 1 [] type = "HOTEL" -> 2 [] type = "TRANSFER" -> 3
      [] type = "MARGIN" -> 4 [] type = "TAX" -> 5

C25_ComponentOrder ==
    Returned =>
        LET cs == Res.breakdown.components
        IN /\ \A i, j \in 1..Len(cs) :
                i < j => Rank(cs[i].componentType) < Rank(cs[j].componentType)
           /\ Len(cs) >= 2
           /\ cs[Len(cs) - 1].componentType = "MARGIN"
           /\ cs[Len(cs)].componentType = "TAX"

C25_Witness ==
    /\ Returned
    /\ args.flightPrice > 0 /\ args.hotelPrice = 0 /\ args.transferPrice > 0
    /\ Len(Res.breakdown.components) = 4
    /\ Res.breakdown.components[2].componentType = "TRANSFER"

----------------------------------------------------------------------------
(* The API client *)

Attempts == Len(req.log)
LastOutcome == req.log[Len(req.log)]

\* C26: every request returns an ApiResponse after at most R + 1 fetch
\* attempts, R being the configured retries value, for every R >= 0,
\* R = 0 included.
C26_AttemptsBounded ==
    (req.pc # "idle" /\ ~IsNull(req.R)) =>
        /\ Attempts <= Val(req.R) + 1
        /\ req.pc = "returned" => req.response \in {Success, Failure}

\* C27: an attempt the timeout aborted is not retried and gives success false
\* at once; an attempt that failed otherwise is retried while retries remain;
\* a successful attempt is the last one.
C27_RetryPolicy ==
    (req.pc # "idle" /\ Attempts > 0) =>
        /\ \A i \in 1..(Attempts - 1) : req.log[i] \notin {"ok", "abort"}
        /\ LastOutcome = "abort" => (req.pc = "returned" /\ req.response = Failure)
        /\ LastOutcome = "ok" => (req.pc = "returned" /\ req.response = Success)
        /\ (LastOutcome \in {"http", "network", "json"} /\ req.pc = "returned") =>
              (req.retries = 0 /\ req.response = Failure)
        /\ req.pc = "wait" => req.retries > 0

C27_Witness ==
    /\ req.pc = "returned"
    /\ req.log = <<"network", "abort">>
    /\ req.retries > 0
    /\ req.response = Failure

----------------------------------------------------------------------------
(* The package builder *)

StepRank(step) ==
    CASE step = "FLIGHT" -> 1 [] step = "HOTEL" -> 2 [] step = "TRANSFER" -> 3
      [] step = "REVIEW" -> 4 [] OTHER -> 0

\* C28: from the initial state, under any clicks, the step moves only
\* forward along FLIGHT, HOTEL, TRANSFER, REVIEW, never to ROOM, and at
\* REVIEW a flight, a hotel and a transfer are selected.
C28_StepsForward ==
    /\ [](/\ builderState.step \in {"FLIGHT", "HOTEL", "TRANSFER", "REVIEW"}
          /\ builderState.step = "REVIEW" =>
                /\ ~IsNull(selectedItems.flight)
                /\ ~IsNull(selectedItems.hotel)
                /\ ~IsNull(selectedItems.transfer))
    /\ [][StepRank(builderState'.step) \in
             {StepRank(builderState.step), StepRank(builderState.step) + 1}]_vars

C28_Witness ==
    /\ builderState.step = "REVIEW"
    /\ selectedItems = [flight |-> Some("1"), hotel |-> Some("1"), transfer |-> Some("1")]

----------------------------------------------------------------------------
(* The chat *)

\* C29: a submit is accepted only with a non-blank input and no reply
\* pending; so at most one reply timer is pending, and after the greeting
\* the messages alternate user, assistant.
C29_OneReplyPending ==
    /\ Len(timers) = (IF isLoading THEN 1 ELSE 0)
    /\ messages[1].role = "assistant"
    /\ \A i \in 2..Len(messages) :
          /\ messages[i].role = (IF i % 2 = 0 THEN "user" ELSE "assistant")
          /\ messages[i].role = "user" => Trim(messages[i].content) # <<>>
    /\ Len(messages) % 2 = (IF isLoading THEN 0 ELSE 1)

C29_Witness ==
    /\ isLoading
    /\ lastSubmit = "ignored"
    /\ Len(messages) = 4
    /\ messages[4].content = <<Blank, "pool", Blank>>

\* C30: every accepted submit is followed, in the end, by exactly one
\* assistant message and by isLoading false again, and then a further submit
\* can be accepted.
C30_ReplyFollows ==
    /\ \A n \in 1..MaxMessages :
          (isLoading /\ Len(messages) = n) ~>
              (/\ ~isLoading /\ Len(messages) = n + 1
               /\ messages[n + 1].role = "assistant")
    /\ [](~isLoading => \E text \in Texts : Accepts(text, isLoading))

C30_Witness ==
    /\ ~isLoading
    /\ lastSubmit = "accepted"
    /\ Len(messages) = 5
    /\ messages[3].content = "pools"
    /\ messages[5].content = "budget"

====
